---- MODULE Spec2Model ----
(***************************************************************************)
(* A model of the rank-assignment and ordering core of the dagre layout    *)
(* (packages/layout/src/dagre): longestPath, longestPathWithLayer,         *)
(* feasibleTree, feasibleTreeWithLayer, resolveConflicts, initOrder and    *)
(* order.  Every function is translated from its TypeScript source; an     *)
(* optional JavaScript value (undefined or a number) is the empty set or a *)
(* singleton set.                                                          *)
(***************************************************************************)
EXTENDS Integers, Sequences, FiniteSets, TLC

\* ------------------------------------------------------------------ bounds
MaxNodes == 3
MaxEdges == 3
MaxMinlen == 2
MaxLayer == 2
MaxRank == 3
MaxEntries == 3
MaxCgEdges == 3
MaxBary == 1
MaxWeight == 2
MaxFixorder == 1
MaxOrdNodes == 4
MaxOrdRank == 2
MaxOrdEdges == 3
MaxPinned == 1

\* ------------------------------------------------- optional values (x | undefined)
None == {}
Some(x) == {x}
IsDef(o) == o # {}
Val(o) == CHOOSE x \in o : TRUE

VARIABLES
  n,        \* number of nodes of g; g.getAllNodes() enumerates 1..n in this order
  edges,    \* g.getAllEdges(): sequence of [source, target, minlen]
  layer,    \* node -> optional layer pin (data.layer)
  rank,     \* node -> optional rank (data.rank)
  rank0,    \* the ranks on entry to feasibleTree / feasibleTreeWithLayer
  t,        \* the tight tree: [nodes |-> sequence of ids, edges |-> set of [id, source, target]]
  shifts,   \* the iterations of the loop of feasibleTree run so far
  pc,       \* position of the caller
  \* resolveConflicts(entries, cg)
  inEntries,      \* the entries argument: sequence of [barycenter, weight], entry i has v = i
  cg,             \* cg.getAllEdges(): sequence of [source, target]
  mappedEntries,  \* v -> ConflictEntry
  sourceSet,      \* the worklist of doResolveConflicts (ids of entries)
  entries,        \* the entries popped so far (ids)
  resolved,       \* the list doResolveConflicts returns
  \* initOrder(g) and order(g)
  fixorder,   \* node -> optional fixorder pin (data.fixorder)
  parent,     \* node -> optional parent in the hierarchy (g.getParent)
  stopsAll,   \* whether a true return of the dfsTree callback ends the whole traversal
  ord,        \* node -> optional order (data.order)
  layering,   \* the layering matrix: layering[r + 1] lists the nodes of rank r
  best,       \* optional best layering
  bestCC,     \* its crossing count, None for Number.POSITIVE_INFINITY
  iter,       \* the loop counter i
  lastBest,   \* the loop counter lastBest
  stale       \* the iterations of the running loop completed since its last improvement

rankVars == <<n, edges, layer, rank, rank0, t, shifts>>
rcVars == <<inEntries, cg, mappedEntries, sourceSet, entries, resolved>>
gVars == <<fixorder, parent, stopsAll>>
ordVars == <<ord, layering, best, bestCC, iter, lastBest, stale>>
vars == <<rankVars, rcVars, gVars, ordVars, pc>>

\* ------------------------------------------------------------- the input graph
EdgeRecs(k) == {e \in [source : 1..k, target : 1..k, minlen : 1..MaxMinlen] : e.source # e.target}

Succ(E, S) == {E[i].target : i \in {j \in DOMAIN E : E[j].source \in S}}

RECURSIVE ReachFrom(_, _, _)
ReachFrom(E, S, k) == IF k = 0 THEN S ELSE ReachFrom(E, S \cup Succ(E, S), k - 1)

\* g.getAllEdges() lists the edges by (source, target): e follows the last edge of E
Follows(E, e) ==
  \/ Len(E) = 0
  \/ E[Len(E)].source < e.source
  \/ E[Len(E)].source = e.source /\ E[Len(E)].target < e.target

\* the edge e may join the DAG E: its source is not reachable from its target
MayJoin(E, e, k) == Follows(E, e) /\ e.source \notin ReachFrom(E, {e.target}, k)

RECURSIVE DagsOfLen(_, _, _)
DagsOfLen(R, k, m) ==
  IF m = 0 THEN {<<>>}
  ELSE UNION {{Append(E, e) : e \in {x \in R : MayJoin(E, x, k)}} : E \in DagsOfLen(R, k, m - 1)}

Reverse(E) == [i \in DOMAIN E |-> E[Len(E) + 1 - i]]

\* the graphs: the edges listed by ascending or by descending (source, target)
Dags(R, k, maxLen) == UNION {{E, Reverse(E)} : E \in UNION {DagsOfLen(R, k, m) : m \in 0..maxLen}}

Neigh(E, S) == {E[i].target : i \in {j \in DOMAIN E : E[j].source \in S}}
                 \cup {E[i].source : i \in {j \in DOMAIN E : E[j].target \in S}}

RECURSIVE Component(_, _, _)
Component(E, S, k) == IF k = 0 THEN S ELSE Component(E, S \cup Neigh(E, S), k - 1)

Connected(E, k) == Component(E, {1}, k) = 1..k

\* ---------------------------------------------- graph queries (@antv/graphlib)
\* g.getRelatedEdges(v, "out"), "in" and "both": edge ids in insertion order;
\* "both" lists the in-edges, then the out-edges.
OutEdges(E, v) == SelectSeq([i \in DOMAIN E |-> i], LAMBDA i : E[i].source = v)
InEdges(E, v) == SelectSeq([i \in DOMAIN E |-> i], LAMBDA i : E[i].target = v)
BothEdges(E, v) == InEdges(E, v) \o OutEdges(E, v)

\* ------------------------------------------------------------------ slack
SlackMut(E, rk, e) == Val(rk[E[e].target]) - Val(rk[E[e].source])
Slack(E, rk, e) == Val(rk[E[e].target]) - Val(rk[E[e].source]) - E[e].minlen

\* ------------------------------------------------------------- longestPath
\* r = wRank - minLen
EdgeRankMut(wRank, minLen) == wRank + minLen
EdgeRank(wRank, minLen) == wRank - minLen

\* if (r) { if (rank === undefined || r < rank) rank = r }
MinRankOf(acc, r) == IF r # 0 /\ (~IsDef(acc) \/ r < Val(acc)) THEN Some(r) ELSE acc

\* if (!rank) rank = 0
RankOrZero(acc) == IF ~IsDef(acc) \/ Val(acc) = 0 THEN 0 ELSE Val(acc)

RECURSIVE LPDfs(_, _, _), LPOut(_, _, _, _, _)
\* dfs(v) on state st = [rank, visited, minRank]; returns [st, ret]
LPDfs(E, v, st) ==
  IF v \in st.visited
  THEN [st |-> st, ret |-> Val(st.rank[v])]
  ELSE LET r == LPOut(E, OutEdges(E, v), 1, [st EXCEPT !.visited = @ \cup {v}], None)
           rk == RankOrZero(r.acc)
           mr == IF ~IsDef(r.st.minRank) \/ rk < Val(r.st.minRank) THEN Some(rk) ELSE r.st.minRank
       IN [st |-> [r.st EXCEPT !.rank[v] = Some(rk), !.minRank = mr], ret |-> rk]
LPOut(E, es, i, st, acc) ==
  IF i > Len(es)
  THEN [st |-> st, acc |-> acc]
  ELSE LET d == LPDfs(E, E[es[i]].target, st)
       IN LPOut(E, es, i + 1, d.st, MinRankOf(acc, EdgeRank(d.ret, E[es[i]].minlen)))

\* g.getAllNodes().filter(no in-edges).forEach(dfs)
RECURSIVE LPRoots(_, _, _, _)
LPRoots(E, k, v, st) ==
  IF v > k THEN st
  ELSE IF Len(InEdges(E, v)) = 0
       THEN LPRoots(E, k, v + 1, LPDfs(E, v, st).st)
       ELSE LPRoots(E, k, v + 1, st)

LPStart(k, rk) == [rank |-> rk, visited |-> {}, minRank |-> None]

longestPath(E, k, rk) == LPRoots(E, k, 1, LPStart(k, rk)).rank

\* ---------------------------------------------------- longestPathWithLayer
\* const currRank = !isNaN(label.data.layer) ? label.data.layer : nextRank
CurrRankMut(L, v, nextRank) == IF IsDef(L[v]) /\ Val(L[v]) > nextRank THEN Val(L[v]) ELSE nextRank
CurrRank(L, v, nextRank) == IF IsDef(L[v]) THEN Val(L[v]) ELSE nextRank

RECURSIVE dfsForward(_, _, _, _, _), FwdOut(_, _, _, _, _, _)
\* dfsForward(v, nextRank) on state st = [rank, fv]
dfsForward(E, L, v, nextRank, st) ==
  LET currRank == CurrRank(L, v, nextRank)
      st1 == IF ~IsDef(st.rank[v]) \/ Val(st.rank[v]) < currRank
             THEN [st EXCEPT !.rank[v] = Some(currRank)]
             ELSE st
  IN IF v \in st.fv
     THEN st1
     ELSE FwdOut(E, L, OutEdges(E, v), 1, currRank, [st1 EXCEPT !.fv = @ \cup {v}])
FwdOut(E, L, es, i, currRank, st) ==
  IF i > Len(es) THEN st
  ELSE FwdOut(E, L, es, i + 1, currRank,
              dfsForward(E, L, E[es[i]].target, currRank + E[es[i]].minlen, st))

\* g.getAllNodes().forEach: a pinned node updates its descendants, an unpinned
\* one is shifted by -minRank
RECURSIVE LayerPass(_, _, _, _, _, _)
LayerPass(E, L, k, v, minRank, st) ==
  IF v > k THEN st
  ELSE IF IsDef(L[v])
       THEN LayerPass(E, L, k, v + 1, minRank, dfsForward(E, L, v, Val(L[v]), st))
       ELSE LayerPass(E, L, k, v + 1, minRank,
                      [st EXCEPT !.rank[v] = Some(Val(@) - minRank)])

longestPathWithLayer(E, L, k, rk) ==
  LET p1 == LPRoots(E, k, 1, LPStart(k, rk))
      minRank == IF IsDef(p1.minRank) THEN Val(p1.minRank) ELSE 0
  IN LayerPass(E, L, k, 1, minRank, [rank |-> p1.rank, fv |-> {}]).rank

\* ------------------------------------------------------------ feasibleTree
TreeNodes(tr) == {tr.nodes[i] : i \in DOMAIN tr.nodes}

\* !slack(g, e)
TightLoose(E, rk, e) == Slack(E, rk, e) <= 1
Tight(E, rk, e) == Slack(E, rk, e) = 0

\* tightTree admits w over e when !t.hasNode(w) && !slack(g, e);
\* tightTreeWithLayer also when w carries a layer pin
Admits(E, L, rk, withLayer, tr, w, e) ==
  /\ w \notin TreeNodes(tr)
  /\ \/ withLayer /\ IsDef(L[w])
     \/ Tight(E, rk, e)

RECURSIVE TTDfs(_, _, _, _, _, _), TTBoth(_, _, _, _, _, _, _, _)
TTDfs(E, L, rk, withLayer, v, tr) == TTBoth(E, L, rk, withLayer, v, BothEdges(E, v), 1, tr)
TTBoth(E, L, rk, withLayer, v, es, i, tr) ==
  IF i > Len(es) THEN tr
  ELSE LET e == es[i]
           w == IF v = E[e].source THEN E[e].target ELSE E[e].source
       IN IF Admits(E, L, rk, withLayer, tr, w, e)
          THEN TTBoth(E, L, rk, withLayer, v, es, i + 1,
                      TTDfs(E, L, rk, withLayer, w,
                            [nodes |-> Append(tr.nodes, w),
                             edges |-> tr.edges \cup {[id |-> e, source |-> v, target |-> w]}]))
          ELSE TTBoth(E, L, rk, withLayer, v, es, i + 1, tr)

\* t.getAllNodes().forEach((n) => dfs(n.id)) over the nodes t holds at the call
RECURSIVE TTAll(_, _, _, _, _, _, _)
TTAll(E, L, rk, withLayer, ns, i, tr) ==
  IF i > Len(ns) THEN tr
  ELSE TTAll(E, L, rk, withLayer, ns, i + 1, TTDfs(E, L, rk, withLayer, ns[i], tr))

tightTree(E, L, rk, withLayer, tr) == TTAll(E, L, rk, withLayer, tr.nodes, 1, tr)

\* the score findMinSlackEdge gives an edge: its slack when exactly one endpoint
\* is in t, else Infinity (None)
Score(E, rk, tr, e) ==
  IF (E[e].source \in TreeNodes(tr)) # (E[e].target \in TreeNodes(tr))
  THEN Some(Slack(E, rk, e))
  ELSE None

\* valA > valB with Infinity as None
Greater(a, b) == IF ~IsDef(a) THEN IsDef(b) ELSE IsDef(b) /\ Val(a) > Val(b)

\* minBy(array, func): array.reduce((a, b) => func(a) > func(b) ? b : a)
RECURSIVE minBy(_, _, _, _, _)
minBy(E, rk, tr, a, b) ==
  IF b > Len(E) THEN a
  ELSE minBy(E, rk, tr, IF Greater(Score(E, rk, tr, a), Score(E, rk, tr, b)) THEN b ELSE a, b + 1)

findMinSlackEdge(E, rk, tr) == minBy(E, rk, tr, 1, 2)

\* delta = t.hasNode(edge.source) ? slack(g, edge) : -slack(g, edge)
DeltaMut(E, rk, tr, e) ==
  IF E[e].source \in TreeNodes(tr) THEN -Slack(E, rk, e) ELSE Slack(E, rk, e)
Delta(E, rk, tr, e) ==
  IF E[e].source \in TreeNodes(tr) THEN Slack(E, rk, e) ELSE -Slack(E, rk, e)

\* shiftRanks(t, g, delta)
shiftRanks(tr, rk, delta) ==
  [v \in DOMAIN rk |->
     IF v \in TreeNodes(tr)
     THEN Some((IF ~IsDef(rk[v]) \/ Val(rk[v]) = 0 THEN 0 ELSE Val(rk[v])) + delta)
     ELSE rk[v]]

EmptyTree == [nodes |-> <<>>, edges |-> {}]

\* -------------------------------------------------------- resolveConflicts
\* A barycenter is a fraction <<p, q>> with q > 0, or NaN, written <<0, 0>> (the
\* result of 0 / 0); the arithmetic is exact.
NaN == <<0, 0>>
IsNaN(a) == a[2] = 0

\* uEntry.barycenter >= vEntry.barycenter (false when either is NaN)
BaryGeMut(a, b) == (~IsNaN(a)) /\ (~IsNaN(b)) /\ a[1] * b[2] > b[1] * a[2]
BaryGe(a, b) == (~IsNaN(a)) /\ (~IsNaN(b)) /\ a[1] * b[2] >= b[1] * a[2]

\* if (x.weight) { sum += x.barycenter * x.weight; weight += x.weight }, on the
\* running [sum, weight], sum a fraction
AddWeighted(acc, x) ==
  IF IsDef(x.weight) /\ Val(x.weight) # 0
  THEN LET b == Val(x.barycenter)
           w == Val(x.weight)
       IN [sum |-> <<acc.sum[1] * b[2] + b[1] * w * acc.sum[2], acc.sum[2] * b[2]>>,
           weight |-> acc.weight + w]
  ELSE acc

Min(a, b) == IF a < b THEN a ELSE b

\* target.vs = source.vs.concat(target.vs)
ConcatVsMut(source, target) == target.vs \o source.vs
ConcatVs(source, target) == source.vs \o target.vs

\* mergeEntries(target, source) on the entries map m
mergeEntries(m, target, source) ==
  LET acc == AddWeighted(AddWeighted([sum |-> <<0, 1>>, weight |-> 0], m[target]), m[source])
      bary == IF acc.weight = 0 THEN NaN ELSE <<acc.sum[1], acc.sum[2] * acc.weight>>
  IN [m EXCEPT ![target].vs = ConcatVs(m[source], m[target]),
               ![target].barycenter = Some(bary),
               ![target].weight = Some(acc.weight),
               ![target].i = Min(m[source].i, m[target].i),
               ![source].merged = TRUE]

\* handleIn(vEntry)(uEntry)
handleInMut(m, v, u) ==
  IF \/ ~IsDef(m[u].barycenter)
     \/ ~IsDef(m[v].barycenter)
     \/ BaryGe(Val(m[u].barycenter), Val(m[v].barycenter))
  THEN mergeEntries(m, v, u)
  ELSE m
handleIn(m, v, u) ==
  IF m[u].merged THEN m
  ELSE IF \/ ~IsDef(m[u].barycenter)
          \/ ~IsDef(m[v].barycenter)
          \/ BaryGe(Val(m[u].barycenter), Val(m[v].barycenter))
       THEN mergeEntries(m, v, u)
       ELSE m

\* entry["in"].reverse().forEach(handleIn(entry))
RECURSIVE HandleIns(_, _, _, _)
HandleIns(m, v, ins, i) ==
  IF i > Len(ins) THEN m
  ELSE HandleIns(handleIn(m, v, ins[i]), v, ins, i + 1)

\* handleOut(vEntry)(wEntry) on st = [m, sourceSet]
handleOut(st, v, w) ==
  LET m1 == [st.m EXCEPT ![w].in = Append(@, v), ![w].indegree = @ - 1]
  IN [m |-> m1,
      sourceSet |-> IF m1[w].indegree = 0 THEN Append(st.sourceSet, w) ELSE st.sourceSet]

\* entry.out.forEach(handleOut(entry))
RECURSIVE HandleOuts(_, _, _, _)
HandleOuts(st, v, outs, i) ==
  IF i > Len(outs) THEN st
  ELSE HandleOuts(handleOut(st, v, outs[i]), v, outs, i + 1)

\* mappedEntries[entry.v] = {i, indegree: 0, in: [], out: [], vs: [entry.v]} with
\* the barycenter and weight of an entry that has a barycenter; i is 0-based
NewEntry(ins, v) ==
  [i |-> v - 1, indegree |-> 0, in |-> <<>>, out |-> <<>>, vs |-> <<v>>,
   barycenter |-> ins[v].barycenter,
   weight |-> IF IsDef(ins[v].barycenter) THEN ins[v].weight ELSE None,
   merged |-> FALSE]

\* cg.getAllEdges().forEach: count the in-degree and record the out link when
\* both endpoints are entries
RECURSIVE LinkEdges(_, _, _)
LinkEdges(m, C, i) ==
  IF i > Len(C) THEN m
  ELSE IF C[i].source \in DOMAIN m /\ C[i].target \in DOMAIN m
       THEN LinkEdges([m EXCEPT ![C[i].target].indegree = @ + 1,
                                ![C[i].source].out = Append(@, C[i].target)], C, i + 1)
       ELSE LinkEdges(m, C, i + 1)

\* Object.values(mappedEntries).filter((entry) => !entry.indegree)
Sources(m) == SelectSeq([v \in DOMAIN m |-> v], LAMBDA v : m[v].indegree = 0)

\* the keys vs, i, barycenter, weight of an entry
Picked(e) == [vs |-> e.vs, i |-> e.i, barycenter |-> e.barycenter, weight |-> e.weight]

\* one iteration of while (sourceSet.length) on st = [m, sourceSet, entries]
PopStep(st) ==
  LET entry == st.sourceSet[Len(st.sourceSet)]
      m1 == HandleIns(st.m, entry, Reverse(st.m[entry].in), 1)
      st1 == HandleOuts([m |-> m1, sourceSet |-> SubSeq(st.sourceSet, 1, Len(st.sourceSet) - 1)],
                        entry, m1[entry].out, 1)
  IN [m |-> [st1.m EXCEPT ![entry].in = Reverse(@)],
      sourceSet |-> st1.sourceSet,
      entries |-> Append(st.entries, entry)]

\* entries.filter((entry) => !entry.merged).map(pick)
Returned(m, popped) ==
  LET filtered == SelectSeq(popped, LAMBDA v : ~m[v].merged)
  IN [j \in DOMAIN filtered |-> Picked(m[filtered[j]])]

RECURSIVE doResolveConflicts(_)
doResolveConflicts(st) ==
  IF Len(st.sourceSet) = 0 THEN Returned(st.m, st.entries)
  ELSE doResolveConflicts(PopStep(st))

resolveConflicts(ins, C) ==
  LET m == LinkEdges([v \in DOMAIN ins |-> NewEntry(ins, v)], C, 1)
  IN doResolveConflicts([m |-> m, sourceSet |-> Sources(m), entries |-> <<>>])

\* --------------------------------------------------------------- initOrder
Max(a, b) == IF a > b THEN a ELSE b

\* Math.max(...nodeRanks)
RECURSIVE MaxRankOf(_, _)
MaxRankOf(rk, k) == IF k = 1 THEN Val(rk[1]) ELSE Max(Val(rk[k]), MaxRankOf(rk, k - 1))

\* array.sort((a, b) => key(a) - key(b)): a stable sort, by insertion
RECURSIVE InsertBy(_, _, _)
InsertBy(sorted, x, key) ==
  IF Len(sorted) = 0 \/ key[sorted[Len(sorted)]] <= key[x]
  THEN Append(sorted, x)
  ELSE Append(InsertBy(SubSeq(sorted, 1, Len(sorted) - 1), x, key), sorted[Len(sorted)])
RECURSIVE SortBy(_, _)
SortBy(xs, key) ==
  IF Len(xs) = 0 THEN <<>>
  ELSE InsertBy(SortBy(SubSeq(xs, 1, Len(xs) - 1), key), xs[Len(xs)], key)

Nodes(k) == [v \in 1..k |-> v]

\* layers[rank].push(id)
PushLayer(layers, r, v) == [layers EXCEPT ![r + 1] = Append(@, v)]

\* fixOrderNodes.forEach: push into the list of its rank, mark visited
RECURSIVE PlaceFixed(_, _, _, _)
PlaceFixed(rk, fs, i, st) ==
  IF i > Len(fs) THEN st
  ELSE PlaceFixed(rk, fs, i + 1,
                  [layers |-> PushLayer(st.layers, Val(rk[fs[i]]), fs[i]),
                   visited |-> st.visited \cup {fs[i]}])

\* g.getChildren(v): the children of v in the hierarchy
Children(par, v) == SelectSeq(Nodes(Len(par)), LAMBDA c : par[c] = Some(v))

\* g.dfsTree(v, callback) on st = [layers, visited]; returns [st, stop]
RECURSIVE dfsTree(_, _, _, _, _), DfsChildren(_, _, _, _, _, _)
dfsTree(rk, par, all, v, st) ==
  IF v \in st.visited
  THEN [st |-> st, stop |-> TRUE]
  ELSE DfsChildren(rk, par, all, Children(par, v), 1,
                   [layers |-> PushLayer(st.layers, Val(rk[v]), v),
                    visited |-> st.visited \cup {v}])
DfsChildren(rk, par, all, cs, i, st) ==
  IF i > Len(cs) THEN [st |-> st, stop |-> FALSE]
  ELSE LET d == dfsTree(rk, par, all, cs[i], st)
       IN IF d.stop /\ all THEN d
          ELSE DfsChildren(rk, par, all, cs, i + 1, d.st)

\* orderedVs.forEach((n) => g.dfsTree(n.id, ...))
RECURSIVE VisitAll(_, _, _, _, _, _)
VisitAll(rk, par, all, vs, i, st) ==
  IF i > Len(vs) THEN st
  ELSE VisitAll(rk, par, all, vs, i + 1, dfsTree(rk, par, all, vs[i], st).st)

\* sort by fixorder
FixedNodesMut(fx, orderedVs) == SelectSeq(orderedVs, LAMBDA v : IsDef(fx[v]))
FixedNodes(fx, orderedVs) ==
  SortBy(SelectSeq(orderedVs, LAMBDA v : IsDef(fx[v])), [v \in DOMAIN fx |-> Val(fx[v])])

initOrder(k, rk, fx, par, all) ==
  LET orderedVs == SortBy(Nodes(k), [v \in 1..k |-> Val(rk[v])])
      empty == [layers |-> [r \in 1..(MaxRankOf(rk, k) + 1) |-> <<>>], visited |-> {}]
      fixed == PlaceFixed(rk, FixedNodes(fx, orderedVs), 1, empty)
  IN VisitAll(rk, par, all, orderedVs, 1, fixed).layers

\* assignOrder(g, layering)
assignOrderMut(o, lay) ==
  [v \in DOMAIN o |->
     IF \E r \in DOMAIN lay : \E x \in DOMAIN lay[r] : lay[r][x] = v
     THEN LET r == CHOOSE r \in DOMAIN lay : \E x \in DOMAIN lay[r] : lay[r][x] = v
          IN Some(CHOOSE x \in DOMAIN lay[r] : lay[r][x] = v)
     ELSE o[v]]
assignOrder(o, lay) ==
  [v \in DOMAIN o |->
     IF \E r \in DOMAIN lay : \E x \in DOMAIN lay[r] : lay[r][x] = v
     THEN LET r == CHOOSE r \in DOMAIN lay : \E x \in DOMAIN lay[r] : lay[r][x] = v
          IN Some((CHOOSE x \in DOMAIN lay[r] : lay[r][x] = v) - 1)
     ELSE o[v]]

\* ------------------------------------------------------------------- order
\* the edges of the layer graph that end at the movable node v, as the map from
\* the other endpoint u to the summed weight of the edges of g between u and v
RECURSIVE LayerWeight(_, _, _, _, _)
LayerWeight(E, dir, u, v, i) ==
  IF i > Len(E) THEN 0
  ELSE LayerWeight(E, dir, u, v, i + 1)
       + (IF \/ dir = "in" /\ E[i].source = u /\ E[i].target = v
             \/ dir = "out" /\ E[i].source = v /\ E[i].target = u
          THEN E[i].weight ELSE 0)
LayerNeighbours(E, dir, v) ==
  IF dir = "in"
  THEN {E[i].source : i \in {j \in DOMAIN E : E[j].target = v}}
  ELSE {E[i].target : i \in {j \in DOMAIN E : E[j].source = v}}

\* lg.getChildren(root): the nodes of the rank, as g.getAllNodes() lists them
Movable(k, rk, r) == SelectSeq(Nodes(k), LAMBDA v : rk[v] = Some(r))

RECURSIVE SumOver(_, _)
SumOver(S, f) ==
  IF S = {} THEN 0 ELSE LET x == CHOOSE x \in S : TRUE IN f[x] + SumOver(S \ {x}, f)

\* barycenter(lg, movable)
barycenter(E, dir, o, movable) ==
  [j \in DOMAIN movable |->
     LET v == movable[j]
         inV == LayerNeighbours(E, dir, v)
         sum == SumOver(inV, [u \in inV |-> LayerWeight(E, dir, u, v, 1) * Val(o[u])])
         weight == SumOver(inV, [u \in inV |-> LayerWeight(E, dir, u, v, 1)])
     IN IF inV = {} THEN [barycenter |-> None, weight |-> None]
        ELSE [barycenter |-> Some(IF weight = 0 THEN NaN ELSE <<sum, weight>>),
              weight |-> Some(weight)]]

BaryLt(a, b) == (~IsNaN(a)) /\ (~IsNaN(b)) /\ a[1] * b[2] < b[1] * a[2]

\* the comparison of two sortable entries: barycenter ascending, then the index
\* by the bias, then the prior order when usePrev is set
Before(a, b, biasRight, usePrev, prior) ==
  IF BaryLt(Val(a.barycenter), Val(b.barycenter)) THEN TRUE
  ELSE IF BaryLt(Val(b.barycenter), Val(a.barycenter)) THEN FALSE
  ELSE IF a.i # b.i THEN (IF biasRight THEN a.i > b.i ELSE a.i < b.i)
  ELSE usePrev /\ prior[a.vs[1]] < prior[b.vs[1]]

RECURSIVE InsertEntry(_, _, _, _, _)
InsertEntry(sorted, x, biasRight, usePrev, prior) ==
  IF Len(sorted) = 0 \/ ~Before(x, sorted[Len(sorted)], biasRight, usePrev, prior)
  THEN Append(sorted, x)
  ELSE Append(InsertEntry(SubSeq(sorted, 1, Len(sorted) - 1), x, biasRight, usePrev, prior),
              sorted[Len(sorted)])
RECURSIVE SortEntries(_, _, _, _)
SortEntries(xs, biasRight, usePrev, prior) ==
  IF Len(xs) = 0 THEN <<>>
  ELSE InsertEntry(SortEntries(SubSeq(xs, 1, Len(xs) - 1), biasRight, usePrev, prior),
                   xs[Len(xs)], biasRight, usePrev, prior)

\* consumeUnsortable on st = [vs, unsortable, index]; unsortable is by ascending i
RECURSIVE consumeUnsortable(_)
consumeUnsortable(st) ==
  IF Len(st.unsortable) > 0 /\ st.unsortable[1].i <= st.index
  THEN consumeUnsortable([vs |-> st.vs \o st.unsortable[1].vs,
                          unsortable |-> Tail(st.unsortable),
                          index |-> st.index + 1])
  ELSE st

RECURSIVE PlaceSortable(_, _, _)
PlaceSortable(sortable, j, st) ==
  IF j > Len(sortable) THEN st
  ELSE PlaceSortable(sortable, j + 1,
                     consumeUnsortable([vs |-> st.vs \o sortable[j].vs,
                                        unsortable |-> st.unsortable,
                                        index |-> st.index + Len(sortable[j].vs)]))

\* sort(entries, biasRight, usePrev): the ids of the entries in their new order
sort(es, biasRight, usePrev, prior) ==
  LET sortable == SortEntries(SelectSeq(es, LAMBDA e : IsDef(e.barycenter)), biasRight, usePrev, prior)
      unsortable == SortBy(SelectSeq(Nodes(Len(es)), LAMBDA j : ~IsDef(es[j].barycenter)),
                           [j \in 1..Len(es) |-> es[j].i])
  IN PlaceSortable(sortable, 1,
                   consumeUnsortable([vs |-> <<>>,
                                      unsortable |-> [j \in DOMAIN unsortable |-> es[unsortable[j]]],
                                      index |-> 0])).vs

\* sortSubgraph(lg, root, cg, biasRight, usePrev) of a layer graph without subgraphs:
\* entry j stands for movable[j]
sortSubgraph(E, k, rk, r, dir, o, biasRight, usePrev) ==
  LET movable == Movable(k, rk, r)
      barycenters == barycenter(E, dir, o, movable)
      resolvedEntries == resolveConflicts(barycenters, <<>>)
      prior == [j \in DOMAIN movable |-> Val(o[movable[j]])]
      vs == sort(resolvedEntries, biasRight, usePrev, prior)
  IN [j \in DOMAIN vs |-> movable[vs[j]]]

\* lnode.data.order = i for the nodes of sorted.vs
SetOrder(o, vs) ==
  [v \in DOMAIN o |->
     IF \E x \in DOMAIN vs : vs[x] = v
     THEN Some((CHOOSE x \in DOMAIN vs : vs[x] = v /\ \A y \in DOMAIN vs : vs[y] = v => y <= x) - 1)
     ELSE o[v]]

\* sweepLayerGraphs(layerGraphs, biasRight, usePrev): ranks lists the ranks of the
\* layer graphs
RECURSIVE sweepLayerGraphs(_, _, _, _, _, _, _, _, _)
sweepLayerGraphs(E, k, rk, ranks, j, dir, o, biasRight, usePrev) ==
  IF j > Len(ranks) THEN o
  ELSE sweepLayerGraphs(E, k, rk, ranks, j + 1, dir,
                        SetOrder(o, sortSubgraph(E, k, rk, ranks[j], dir, o, biasRight, usePrev)),
                        biasRight, usePrev)

\* range1 = [1 .. mxRank], range2 = [mxRank - 1 .. 0]
DownRanks(mx) == [j \in 1..mx |-> j]
UpRanks(mx) == [j \in 1..mx |-> mx - j]

\* buildLayerMatrix(g): layering[rank][order] = v; 0 stands for a hole
buildLayerMatrix(k, rk, o) ==
  [r1 \in 1..(MaxRankOf(rk, k) + 1) |->
     LET vs == {v \in 1..k : rk[v] = Some(r1 - 1) /\ IsDef(o[v])}
         len == IF vs = {} THEN 0
                ELSE 1 + Val(o[CHOOSE v \in vs : \A w \in vs : Val(o[w]) <= Val(o[v])])
     IN [x \in 1..len |->
           IF \E v \in vs : o[v] = Some(x - 1)
           THEN CHOOSE v \in vs : o[v] = Some(x - 1) /\ \A w \in vs : o[w] = o[v] => w <= v
           ELSE 0]]

PosIn2(xs, v) == CHOOSE x \in DOMAIN xs : xs[x] = v

\* crossCount(g, layering): the inversions between each two adjacent ranks
crossCount(E, lay) ==
  LET Between(r) == {i \in DOMAIN E : /\ \E x \in DOMAIN lay[r] : lay[r][x] = E[i].source
                                      /\ \E x \in DOMAIN lay[r + 1] : lay[r + 1][x] = E[i].target}
      Crossings(r) == {p \in Between(r) \X Between(r) :
                         /\ PosIn2(lay[r], E[p[1]].source) < PosIn2(lay[r], E[p[2]].source)
                         /\ PosIn2(lay[r + 1], E[p[1]].target) > PosIn2(lay[r + 1], E[p[2]].target)}
  IN SumOver(1..(Len(lay) - 1), [r \in 1..(Len(lay) - 1) |-> Cardinality(Crossings(r))])

\* ------------------------------------------------------------- the actions
RcIdle ==
  /\ inEntries = <<>>
  /\ cg = <<>>
  /\ mappedEntries = <<>>
  /\ sourceSet = <<>>
  /\ entries = <<>>
  /\ resolved = <<>>

OrdIdle ==
  /\ fixorder = <<>>
  /\ parent = <<>>
  /\ stopsAll = FALSE
  /\ ord = <<>>
  /\ layering = <<>>
  /\ best = None
  /\ bestCC = None
  /\ iter = 0
  /\ lastBest = 0
  /\ stale = 0

RankIdle ==
  /\ n = 0
  /\ edges = <<>>
  /\ layer = <<>>
  /\ rank = <<>>
  /\ rank0 = <<>>
  /\ t = [nodes |-> <<>>, edges |-> {}]
  /\ shifts = 0

\* rank assignment on a graph without layer pins: longestPath, then feasibleTree
InitRank ==
  /\ n \in 1..MaxNodes
  /\ edges \in Dags(EdgeRecs(n), n, MaxEdges)
  /\ layer = [v \in 1..n |-> None]
  /\ rank = [v \in 1..n |-> None]
  /\ rank0 = rank
  /\ t = EmptyTree
  /\ shifts = 0
  /\ RcIdle
  /\ OrdIdle
  /\ pc = "start"

\* rank assignment with layer pins: longestPathWithLayer, then feasibleTreeWithLayer
InitLayer ==
  /\ n \in 1..MaxNodes
  /\ edges \in Dags(EdgeRecs(n), n, MaxEdges)
  /\ layer \in [1..n -> {None} \cup {Some(l) : l \in 0..MaxLayer}]
  /\ rank = [v \in 1..n |-> None]
  /\ rank0 = rank
  /\ t = EmptyTree
  /\ shifts = 0
  /\ RcIdle
  /\ OrdIdle
  /\ pc = "start"

LongestPath ==
  /\ pc = "start"
  /\ rank' = longestPath(edges, n, rank)
  /\ pc' = "ranked"
  /\ UNCHANGED <<n, edges, layer, rank0, t, shifts, rcVars, gVars, ordVars>>

LongestPathWithLayer ==
  /\ pc = "start"
  /\ rank' = longestPathWithLayer(edges, layer, n, rank)
  /\ pc' = "ranked"
  /\ UNCHANGED <<n, edges, layer, rank0, t, shifts, rcVars, gVars, ordVars>>

\* a caller of feasibleTree that brings its own ranks, which respect the minlen
\* of every edge (pre-condition 5)
GivenRanks ==
  /\ pc = "start"
  /\ Connected(edges, n)
  /\ rank' \in {rk \in [1..n -> {Some(r) : r \in 0..MaxRank}] :
                  \A e \in DOMAIN edges :
                    Val(rk[edges[e].target]) - Val(rk[edges[e].source]) >= edges[e].minlen}
  /\ pc' = "given"
  /\ UNCHANGED <<n, edges, layer, rank0, t, shifts, rcVars, gVars, ordVars>>

\* feasibleTree up to its loop: t.addNode(g.getAllNodes()[0]); the graph is
\* connected (pre-condition 2)
TreeStart ==
  /\ pc \in {"ranked", "given"}
  /\ Connected(edges, n)
  /\ t' = [nodes |-> <<1>>, edges |-> {}]
  /\ rank0' = rank
  /\ pc' = "loop"
  /\ UNCHANGED <<n, edges, layer, rank, shifts, rcVars, gVars, ordVars>>

\* the loop test: while (tightTree(t, g) < size)
LoopTest(withLayer) ==
  /\ pc = "loop"
  /\ t' = tightTree(edges, layer, rank, withLayer, t)
  /\ pc' = IF Len(t'.nodes) < n THEN "shift" ELSE "done"
  /\ UNCHANGED <<n, edges, layer, rank, rank0, shifts, rcVars, gVars, ordVars>>

\* the loop body: findMinSlackEdge, delta, shiftRanks
LoopBody ==
  /\ pc = "shift"
  /\ LET e == findMinSlackEdge(edges, rank, t)
     IN rank' = shiftRanks(t, rank, Delta(edges, rank, t, e))
  /\ shifts' = shifts + 1
  /\ pc' = "loop"
  /\ UNCHANGED <<n, edges, layer, rank0, t, rcVars, gVars, ordVars>>

TightTree == LoopTest(FALSE)
TightTreeWithLayer == LoopTest(TRUE)

NextRank == LongestPath \/ GivenRanks \/ TreeStart \/ TightTree \/ LoopBody
NextLayer == LongestPathWithLayer \/ TreeStart \/ TightTreeWithLayer \/ LoopBody

SpecRank == InitRank /\ [][NextRank]_vars
SpecLayer == InitLayer /\ [][NextLayer]_vars

\* ---------------------------------------------------- resolveConflicts actions
CgRecs == {e \in [source : 1..MaxEntries, target : 1..MaxEntries] : e.source # e.target}

EntryArgs ==
  {[barycenter |-> None, weight |-> None]}
    \cup {[barycenter |-> Some(<<b, 1>>), weight |-> Some(w)] : b \in 0..MaxBary, w \in 1..MaxWeight}

InitResolve ==
  /\ RankIdle
  /\ OrdIdle
  /\ inEntries \in UNION {[1..k -> EntryArgs] : k \in 1..MaxEntries}
  /\ cg \in Dags(CgRecs, MaxEntries, MaxCgEdges)
  /\ mappedEntries = <<>>
  /\ sourceSet = <<>>
  /\ entries = <<>>
  /\ resolved = <<>>
  /\ pc = "resolve"

\* resolveConflicts up to the call of doResolveConflicts
ResolveConflicts ==
  /\ pc = "resolve"
  /\ mappedEntries' = LinkEdges([v \in DOMAIN inEntries |-> NewEntry(inEntries, v)], cg, 1)
  /\ sourceSet' = Sources(mappedEntries')
  /\ pc' = "worklist"
  /\ UNCHANGED <<rankVars, gVars, ordVars, inEntries, cg, entries, resolved>>

\* one iteration of while (sourceSet.length)
PopEntry ==
  /\ pc = "worklist"
  /\ Len(sourceSet) > 0
  /\ LET st == PopStep([m |-> mappedEntries, sourceSet |-> sourceSet, entries |-> entries])
     IN /\ entries' = st.entries
        /\ mappedEntries' = st.m
        /\ sourceSet' = st.sourceSet
  /\ UNCHANGED <<rankVars, gVars, ordVars, inEntries, cg, resolved, pc>>

\* the worklist is empty: entries.filter(!merged).map(pick)
ReturnResolved ==
  /\ pc = "worklist"
  /\ Len(sourceSet) = 0
  /\ resolved' = Returned(mappedEntries, entries)
  /\ pc' = "resolved"
  /\ UNCHANGED <<rankVars, gVars, ordVars, inEntries, cg, mappedEntries, sourceSet, entries>>

NextResolve == ResolveConflicts \/ PopEntry \/ ReturnResolved
SpecResolve == InitResolve /\ [][NextResolve]_vars

\* ------------------------------------------------------------ initOrder actions
\* the hierarchies: every node has no parent or one among the nodes, without cycle
RECURSIVE Ancestors(_, _, _)
Ancestors(par, v, k) ==
  IF k = 0 \/ ~IsDef(par[v]) THEN {} ELSE {Val(par[v])} \cup Ancestors(par, Val(par[v]), k - 1)
Forests(k) ==
  {par \in [1..k -> {None} \cup {Some(p) : p \in 1..k}] : \A v \in 1..k : v \notin Ancestors(par, v, k)}

InitInitOrder ==
  /\ n \in 1..MaxNodes
  /\ edges = <<>>
  /\ layer = [v \in 1..n |-> None]
  /\ rank \in [1..n -> {Some(r) : r \in 0..MaxRank}]
  /\ rank0 = rank
  /\ t = EmptyTree
  /\ shifts = 0
  /\ RcIdle
  /\ fixorder \in [1..n -> {None} \cup {Some(f) : f \in 0..MaxFixorder}]
  /\ parent \in Forests(n)
  /\ stopsAll \in BOOLEAN
  /\ ord = [v \in 1..n |-> None]
  /\ layering = <<>>
  /\ best = None
  /\ bestCC = None
  /\ iter = 0
  /\ lastBest = 0
  /\ stale = 0
  /\ pc = "initOrder"

\* layering = initOrder(g); assignOrder(g, layering)
InitOrder ==
  /\ pc = "initOrder"
  /\ layering' = initOrder(n, rank, fixorder, parent, stopsAll)
  /\ ord' = assignOrder(ord, layering')
  /\ pc' = "ordered"
  /\ UNCHANGED <<rankVars, rcVars, gVars, best, bestCC, iter, lastBest, stale>>

NextInitOrder == InitOrder
SpecInitOrder == InitInitOrder /\ [][NextInitOrder]_vars

\* ---------------------------------------------------------------- order actions
\* the edges order(g) accepts: short edges, from one rank to the next
ShortRecs(k, rk) ==
  {e \in [source : 1..k, target : 1..k, weight : 1..MaxWeight] :
     Val(rk[e.target]) = Val(rk[e.source]) + 1}

\* a graph of two ranks, three nodes above five, and its edges
WideRank == <<Some(0), Some(0), Some(0), Some(1), Some(1), Some(1), Some(1), Some(1)>>
WideEdges ==
  <<[source |-> 1, target |-> 4, weight |-> 1], [source |-> 1, target |-> 5, weight |-> 1],
    [source |-> 2, target |-> 4, weight |-> 1], [source |-> 2, target |-> 5, weight |-> 1],
    [source |-> 2, target |-> 8, weight |-> 1], [source |-> 3, target |-> 5, weight |-> 1],
    [source |-> 3, target |-> 6, weight |-> 1]>>

InitOrderGraph ==
  /\ \/ /\ n \in 1..MaxOrdNodes
        /\ rank \in [1..n -> {Some(r) : r \in 0..MaxOrdRank}]
        /\ edges \in UNION {DagsOfLen(ShortRecs(n, rank), n, m) : m \in 0..MaxOrdEdges}
        /\ fixorder \in {fx \in [1..n -> {None} \cup {Some(f) : f \in 0..MaxFixorder}] :
                           Cardinality({v \in 1..n : IsDef(fx[v])}) <= MaxPinned}
     \/ /\ n = Len(WideRank)
        /\ rank = WideRank
        /\ \E S \in SUBSET DOMAIN WideEdges :
             edges = SelectSeq(WideEdges, LAMBDA e : \E i \in S : WideEdges[i] = e)
        /\ fixorder = [v \in 1..n |-> None]
  /\ layer = [v \in 1..n |-> None]
  /\ rank0 = rank
  /\ t = EmptyTree
  /\ shifts = 0
  /\ RcIdle
  /\ parent = [v \in 1..n |-> None]
  /\ stopsAll = FALSE
  /\ ord = [v \in 1..n |-> None]
  /\ layering = <<>>
  /\ best = None
  /\ bestCC = None
  /\ iter = 0
  /\ lastBest = 0
  /\ stale = 0
  /\ pc = "order"

\* let layering = initOrder(g); assignOrder(g, layering); bestCC = +Infinity
OrderStart ==
  /\ pc = "order"
  /\ layering' = initOrder(n, rank, fixorder, parent, stopsAll)
  /\ ord' = assignOrder(ord, layering')
  /\ bestCC' = None
  /\ best' = None
  /\ iter' = 0
  /\ lastBest' = 0
  /\ stale' = 0
  /\ pc' = "run1"
  /\ UNCHANGED <<rankVars, rcVars, gVars>>

\* one iteration of for (let i = 0, lastBest = 0; lastBest < 4; ++i, ++lastBest)
Sweep(usePrev) ==
  /\ pc = IF usePrev THEN "run2" ELSE "run1"
  /\ lastBest < 4
  /\ LET mx == MaxRankOf(rank, n)
         o1 == IF iter % 2 = 1
               THEN sweepLayerGraphs(edges, n, rank, DownRanks(mx), 1, "in", ord, iter % 4 >= 2, usePrev)
               ELSE sweepLayerGraphs(edges, n, rank, UpRanks(mx), 1, "out", ord, iter % 4 >= 2, usePrev)
         lay == buildLayerMatrix(n, rank, o1)
         cc == crossCount(edges, lay)
     IN /\ ord' = o1
        /\ layering' = lay
        /\ IF ~IsDef(bestCC) \/ cc < Val(bestCC)
           THEN /\ lastBest' = 1
                /\ stale' = 0
                /\ best' = Some(lay)
                /\ bestCC' = Some(cc)
           ELSE /\ lastBest' = lastBest + 1
                /\ stale' = stale + 1
                /\ UNCHANGED <<best, bestCC>>
  /\ iter' = iter + 1
  /\ UNCHANGED <<rankVars, rcVars, gVars, pc>>

SweepRun1 == Sweep(FALSE)
SweepRun2 == Sweep(TRUE)

\* the first loop ends: layering = initOrder(g); assignOrder(g, layering)
Restart ==
  /\ pc = "run1"
  /\ lastBest >= 4
  /\ layering' = initOrder(n, rank, fixorder, parent, stopsAll)
  /\ ord' = assignOrder(ord, layering')
  /\ iter' = 0
  /\ lastBest' = 0
  /\ stale' = 0
  /\ pc' = "run2"
  /\ UNCHANGED <<rankVars, rcVars, gVars, best, bestCC>>

\* the second loop ends: assignOrder(g, best)
Finish ==
  /\ pc = "run2"
  /\ lastBest >= 4
  /\ ord' = assignOrder(ord, Val(best))
  /\ pc' = "done"
  /\ UNCHANGED <<rankVars, rcVars, gVars, layering, best, bestCC, iter, lastBest, stale>>

NextOrder == OrderStart \/ SweepRun1 \/ Restart \/ SweepRun2 \/ Finish
SpecOrder == InitOrderGraph /\ [][NextOrder]_vars

\* ------------------------------------------------------------------ claims
Started == pc # "start"
IsRoot(v) == Len(InEdges(edges, v)) = 0
IsSink(v) == Len(OutEdges(edges, v)) = 0

\* C1: after longestPath, after every iteration of feasibleTree and when it
\* returns, every edge has target.rank - source.rank >= minlen (no negative slack).
C1_RankFeasible ==
  Started => \A e \in DOMAIN edges : Val(rank[edges[e].target]) - Val(rank[edges[e].source]) >= edges[e].minlen
C1_Witness == pc = "done" /\ rank # rank0 /\ Len(edges) >= 2

\* C2: when feasibleTree returns, the tree holds exactly the nodes of g, each
\* once, and every tree edge has slack 0 in g.
C2_TightTreeComplete ==
  pc = "done" =>
    /\ Len(t.nodes) = n
    /\ TreeNodes(t) = 1..n
    /\ \A te \in t.edges :
         Val(rank[edges[te.id].target]) - Val(rank[edges[te.id].source]) = edges[te.id].minlen
C2_Witness == pc = "done" /\ n = MaxNodes /\ rank # rank0 /\ Cardinality(t.edges) = n - 1

\* C10 (as stated): after longestPath every root has rank 0 and every other
\* node a non-positive rank.
C10_RootsZero ==
  pc = "ranked" => \A v \in 1..n : IF IsRoot(v) THEN rank[v] = Some(0) ELSE Val(rank[v]) <= 0
\* C10 (amended): after longestPath every node without outgoing edges has rank 0,
\* every node with an outgoing edge has a negative rank, so no rank is positive.
C10_SinksZero ==
  pc = "ranked" => \A v \in 1..n : IF IsSink(v) THEN rank[v] = Some(0) ELSE Val(rank[v]) < 0
C10_Witness == pc = "ranked" /\ \E v \in 1..n : IsRoot(v) /\ ~IsSink(v) /\ Val(rank[v]) < -1

Pinned(v) == IsDef(layer[v])

\* C3: after longestPathWithLayer every node with a layer pin has exactly that rank.
C3_PinAuthority ==
  pc = "ranked" => \A v \in 1..n : Pinned(v) => rank[v] = layer[v]
C3_Witness ==
  /\ pc = "ranked"
  /\ \E e \in DOMAIN edges :
       /\ Pinned(edges[e].target) /\ ~Pinned(edges[e].source)
       /\ Val(rank[edges[e].source]) + edges[e].minlen > Val(layer[edges[e].target])

\* C4: when feasibleTreeWithLayer returns, every pinned node has the rank it had on entry.
C4_PinnedRankKept ==
  pc = "done" => \A v \in 1..n : Pinned(v) => rank[v] = rank0[v]

\* C9: two pinned nodes joined by an edge whose minlen their pins cannot satisfy:
\* rank assignment never completes normally with that edge shorter than its minlen.
C9_InfeasiblePinsReported ==
  \A e \in DOMAIN edges :
    (/\ Pinned(edges[e].source) /\ Pinned(edges[e].target)
     /\ Val(layer[edges[e].target]) - Val(layer[edges[e].source]) < edges[e].minlen)
    => ~(pc = "done" /\ Val(rank[edges[e].target]) - Val(rank[edges[e].source]) < edges[e].minlen)

\* where the id v stands in the returned list: the index of the entry whose vs
\* holds v (0 when none does), and its position in that vs
EntryOf(v) ==
  LET S == {j \in DOMAIN resolved : \E x \in DOMAIN resolved[j].vs : resolved[j].vs[x] = v}
  IN IF S = {} THEN 0 ELSE CHOOSE j \in S : TRUE
PosIn(v, j) == CHOOSE x \in DOMAIN resolved[j].vs : resolved[j].vs[x] = v
IsConstraint(c) == cg[c].source \in DOMAIN inEntries /\ cg[c].target \in DOMAIN inEntries

\* C5: for every constraint edge (u -> v) between two input entries, in the
\* returned list u and v share an entry with u before v in vs, or the entry of u
\* comes earlier in the list than the entry of v.
C5_ConstraintsRespected ==
  pc = "resolved" =>
    \A c \in DOMAIN cg :
      IsConstraint(c) =>
        LET ju == EntryOf(cg[c].source)
            jv == EntryOf(cg[c].target)
        IN /\ ju # 0 /\ jv # 0
           /\ \/ ju < jv
              \/ ju = jv /\ PosIn(cg[c].source, ju) < PosIn(cg[c].target, jv)

\* C8: in every per-rank list of initOrder the nodes with a fixorder come before
\* the nodes without one, in ascending fixorder; a node with fixorder 0, the only
\* pinned one of its rank, is at position 0.
C8_FixorderFirst ==
  pc = "ordered" =>
    \A r \in DOMAIN layering :
      /\ \A x, y \in DOMAIN layering[r] :
           x < y =>
             /\ IsDef(fixorder[layering[r][y]]) => IsDef(fixorder[layering[r][x]])
             /\ IsDef(fixorder[layering[r][y]]) => Val(fixorder[layering[r][x]]) <= Val(fixorder[layering[r][y]])
      /\ \A v \in 1..n :
           (/\ rank[v] = Some(r - 1) /\ fixorder[v] = Some(0)
            /\ \A w \in 1..n : (w # v /\ rank[w] = rank[v]) => ~IsDef(fixorder[w]))
           => layering[r][1] = v
C8_Witness ==
  /\ pc = "ordered"
  /\ \E v, w \in 1..n :
       /\ v > w /\ rank[v] = rank[w]
       /\ fixorder[v] = Some(0) /\ ~IsDef(fixorder[w])
       /\ parent[v] = Some(w)
       /\ layering[Val(rank[v]) + 1][1] = v

\* C6: in order(g) the tracked best crossing count never increases from one
\* iteration to the next, over both runs, and the layering that assignOrder(g, best)
\* finally writes has no more crossings than the layering of the first initOrder(g).
C6_MonotonicImprovement ==
  /\ [][IsDef(bestCC) => (IsDef(bestCC') /\ Val(bestCC') <= Val(bestCC))]_vars
  /\ [](pc = "done" =>
          crossCount(edges, Val(best))
            <= crossCount(edges, initOrder(n, rank, fixorder, parent, stopsAll)))

\* C7: after order(g), the order values of the nodes of each rank are exactly
\* 0 .. k-1, k the number of nodes of the rank, each used once; and the layering
\* of initOrder lists every node once, in the list of its rank.
RankNodes(r) == {v \in 1..n : rank[v] = Some(r)}
C7_OrderDense ==
  /\ pc = "done" =>
       \A r \in 0..MaxRankOf(rank, n) :
         /\ \A v \in RankNodes(r) : IsDef(ord[v])
         /\ {Val(ord[v]) : v \in RankNodes(r)} = 0..(Cardinality(RankNodes(r)) - 1)
         /\ \A v, w \in RankNodes(r) : ord[v] = ord[w] => v = w
  /\ (pc = "run1" /\ iter = 0) =>
       \A v \in 1..n :
         \A r \in DOMAIN layering :
           Cardinality({x \in DOMAIN layering[r] : layering[r][x] = v})
             = IF rank[v] = Some(r - 1) THEN 1 ELSE 0
C7_Witness ==
  /\ pc = "done"
  /\ \E r \in 0..MaxRankOf(rank, n) : Cardinality(RankNodes(r)) >= 3
  /\ \E v \in 1..n : Val(ord[v]) # Cardinality({w \in 1..v - 1 : rank[w] = rank[v]})

\* C11: each of the two sweep loops of order(g) stops exactly when 4 consecutive
\* iterations have completed without improvement: a loop that has stopped has 4
\* such iterations behind it, and a loop never goes on after 4 of them.
C11_StopAfterFour ==
  pc \in {"run1", "run2"} => (lastBest >= 4 <=> stale = 4)

\* C12: on a connected DAG with feasible ranks the tight tree of feasibleTree never
\* loses a node; after each shiftRanks the next tightTree call admits the endpoint
\* outside the tree of the edge findMinSlackEdge chose, so every tightTree call
\* after a shift finds more nodes than the one before, and the loop body runs at
\* most |V| - 1 times.
Outside(e) == IF edges[e].source \in TreeNodes(t) THEN edges[e].target ELSE edges[e].source
Admitted(e) == Outside(e) \in TreeNodes(tightTree(edges, layer, rank', FALSE, t))
C12_StrictGrowth ==
  /\ [][(pc \in {"loop", "shift"}) => (TreeNodes(t) \subseteq TreeNodes(t'))]_vars
  /\ [][(pc = "shift") => Admitted(findMinSlackEdge(edges, rank, t))]_vars
  /\ [][(pc = "loop" /\ shifts > 0) => (Len(t'.nodes) > Len(t.nodes))]_vars
  /\ [](Started => shifts <= n - 1)
C12_Witness == pc = "done" /\ n = MaxNodes /\ shifts = n - 1

\* C13: the vs lists of the entries resolveConflicts returns partition the input
\* ids (every input id is in exactly one returned vs, exactly once, and nothing
\* else is), no entry marked merged is in the returned list, and the i of each
\* returned entry is the least original index of the ids of its vs.
Places(v) == {p \in (DOMAIN resolved) \X (1..Len(inEntries)) :
                p[2] \in DOMAIN resolved[p[1]].vs /\ resolved[p[1]].vs[p[2]] = v}
OwnId(j) == resolved[j].vs[Len(resolved[j].vs)]
C13_Partition ==
  pc = "resolved" =>
    /\ \A v \in DOMAIN inEntries : Cardinality(Places(v)) = 1
    /\ \A j \in DOMAIN resolved :
         /\ Len(resolved[j].vs) <= Len(inEntries)
         /\ \A x \in DOMAIN resolved[j].vs : resolved[j].vs[x] \in DOMAIN inEntries
         /\ ~mappedEntries[OwnId(j)].merged
         /\ resolved[j] = Picked(mappedEntries[OwnId(j)])
         /\ \E x \in DOMAIN resolved[j].vs : resolved[j].i = resolved[j].vs[x] - 1
         /\ \A x \in DOMAIN resolved[j].vs : resolved[j].i <= resolved[j].vs[x] - 1
    /\ \A v \in DOMAIN inEntries :
         mappedEntries[v].merged => \A j \in DOMAIN resolved : OwnId(j) # v
C13_Witness ==
  /\ pc = "resolved"
  /\ Len(inEntries) = MaxEntries
  /\ \E v \in DOMAIN inEntries : mappedEntries[v].merged
  /\ \E j \in DOMAIN resolved : Len(resolved[j].vs) >= 2 /\ resolved[j].i # OwnId(j) - 1
  /\ Len(resolved) >= 2

====
